---- MODULE Spec2Model ----
(***************************************************************************)
(* Model of the webhook proxy's alert enrichment pipeline.                 *)
(*                                                                         *)
(* Three handlers live in the repository:                                  *)
(*   "part_000" : src/unnamed/part_000 (src/api/webhook.js 229-435 is its  *)
(*                TypeScript twin): SYMBOL_MAP + fetchWithTimeout          *)
(*   "part_001" : src/unnamed/part_001: inline parenMatch / commaMatch     *)
(*   "webhook"  : src/api/webhook.js 1-226: pre-formatter + name enhancer  *)
(*                                                                         *)
(* A text is a sequence of characters.  An ASCII character is the          *)
(* one-character string itself; a non-ASCII character of the source is a   *)
(* string "u_<pinyin>" (for instance "u_biao","u_di" are the two           *)
(* characters of the instrument label, "u_colon" the full-width colon).    *)
(***************************************************************************)
EXTENDS Integers, Sequences, FiniteSets, TLC

----------------------------------------------------------------------------
(* Characters and character classes of the regular expressions *)

Digits == {"0", "1", "2", "3", "4", "5", "6", "7", "8", "9"}

Letters ==
  {"a", "b", "c", "d", "e", "f", "g", "h", "i", "j", "k", "l", "m",
   "n", "o", "p", "q", "r", "s", "t", "u", "v", "w", "x", "y", "z",
   "A", "B", "C", "D", "E", "F", "G", "H", "I", "J", "K", "L", "M",
   "N", "O", "P", "Q", "R", "S", "T", "U", "V", "W", "X", "Y", "Z"}

\* \s
Space == {" ", "\n", "\t"}

\* [:：]
Colons == {":", "u_colon"}

\* [A-Za-z0-9!_.-]
SymbolChars == Letters \cup Digits \cup {"!", "_", ".", "-"}

\* [\s,]
SpaceOrComma == Space \cup {","}

\* [（(] and [)）]
OpenParens == {"(", "u_lparen"}

CloseParens == {")", "u_rparen"}

\* the two characters of the instrument label
Label == <<"u_biao", "u_di">>

----------------------------------------------------------------------------
(* JavaScript string primitives *)

MinOf(S) == CHOOSE x \in S : \A y \in S : x <= y

\* s.startsWith(p, i-1) with 1-based i
StartsWithAt(s, i, p) ==
  /\ i >= 1
  /\ i + Len(p) - 1 <= Len(s)
  /\ \A k \in 1..Len(p) : s[i + k - 1] = p[k]

\* s.indexOf(p) + 1 (0 when absent)
IndexOf(s, p) ==
  LET hits == {i \in 1..(Len(s) + 1) : StartsWithAt(s, i, p)}
  IN IF hits = {} THEN 0 ELSE MinOf(hits)

\* s.includes(p)
Includes(s, p) == IndexOf(s, p) # 0

\* s.replace(pat, rep) with a string pattern: the first occurrence only
ReplaceFirst(s, pat, rep) ==
  LET i == IndexOf(s, pat)
  IN IF i = 0 THEN s
     ELSE SubSeq(s, 1, i - 1) \o rep \o SubSeq(s, i + Len(pat), Len(s))

\* the index just after the longest run of characters of C that starts at i
SkipWhile(s, i, C) ==
  MinOf({j \in i..(Len(s) + 1) : j = Len(s) + 1 \/ s[j] \notin C})

\* s.trim()
Trim(s) ==
  LET keep == {i \in 1..Len(s) : s[i] \notin Space}
  IN IF keep = {} THEN <<>>
     ELSE SubSeq(s, MinOf(keep), CHOOSE x \in keep : \A y \in keep : y <= x)

\* s.split(d): the parts of s between the occurrences of the character d
RECURSIVE Split(_, _)
Split(s, d) ==
  LET hits == {i \in 1..Len(s) : s[i] = d}
  IN IF hits = {} THEN <<s>>
     ELSE LET i == MinOf(hits)
          IN <<SubSeq(s, 1, i - 1)>> \o Split(SubSeq(s, i + 1, Len(s)), d)

\* parts.join(d)
RECURSIVE Join(_, _)
Join(parts, d) ==
  IF Len(parts) = 0 THEN <<>>
  ELSE IF Len(parts) = 1 THEN parts[1]
  ELSE parts[1] \o <<d>> \o Join(Tail(parts), d)

\* s.padStart(n, '0')
RECURSIVE PadStart(_, _)
PadStart(s, n) == IF Len(s) >= n THEN s ELSE PadStart(<<"0">> \o s, n)

AllDigits(s) == \A i \in 1..Len(s) : s[i] \in Digits

\* JavaScript null / undefined, and truthiness of a string-or-null value
Null == <<"<null>">>

Truthy(v) == v # Null /\ v # <<>>

----------------------------------------------------------------------------
(* Regular-expression matches.  A match is [found, all, group]: the        *)
(* matched text (match[0]) and the text of the capture group.              *)

NoMatch == [found |-> FALSE, all |-> <<>>, group |-> <<>>]

\* the index of the first character c at or after i (Len(s)+1 when none)
SkipUntil(s, i, c) ==
  MinOf({j \in i..(Len(s) + 1) : j = Len(s) + 1 \/ s[j] = c})

\* 标的\s*[:：] at i: the index just after the colon, 0 when no match
LabelEnd(s, i) ==
  IF ~StartsWithAt(s, i, Label) THEN 0
  ELSE LET j == SkipWhile(s, i + Len(Label), Space)
       IN IF j <= Len(s) /\ s[j] \in Colons THEN j + 1 ELSE 0

\* /\d{5,6}/ at i
DigitsAt(s, i) ==
  LET e == SkipWhile(s, i, Digits)
      n == IF e - i > 6 THEN 6 ELSE e - i
  IN IF e - i >= 5
     THEN [found |-> TRUE, all |-> SubSeq(s, i, i + n - 1),
           group |-> SubSeq(s, i, i + n - 1)]
     ELSE NoMatch

\* /(标的\s*[:：]\s*\d{5,6})/ at i
CodeMatchAt(s, i) ==
  LET a == LabelEnd(s, i)
  IN IF a = 0 THEN NoMatch
     ELSE LET d == SkipWhile(s, a, Space)
              m == DigitsAt(s, d)
          IN IF m.found
             THEN [found |-> TRUE,
                   all |-> SubSeq(s, i, d + Len(m.all) - 1),
                   group |-> SubSeq(s, i, d + Len(m.all) - 1)]
             ELSE NoMatch

\* /标的\s*[:：]\s*([A-Za-z0-9!_.-]+)/ at i
SymbolMatchAt(s, i) ==
  LET a == LabelEnd(s, i)
  IN IF a = 0 THEN NoMatch
     ELSE LET d == SkipWhile(s, a, Space)
              e == SkipWhile(s, d, SymbolChars)
          IN IF e > d
             THEN [found |-> TRUE, all |-> SubSeq(s, i, e - 1),
                   group |-> SubSeq(s, d, e - 1)]
             ELSE NoMatch

\* /标的\s*[:：].*?[（(]\s*\d{5,6}\s*[)）]/ at i
AlreadyFormattedAt(s, i) ==
  LET a == LabelEnd(s, i)
      \* the index of the closing parenthesis when the tail matches at j
      closeAt(j) ==
        LET d == SkipWhile(s, j + 1, Space)
            e == SkipWhile(s, d, Digits)
            f == SkipWhile(s, e, Space)
        IN IF e - d \in {5, 6} /\ f <= Len(s) /\ s[f] \in CloseParens
           THEN f ELSE 0
      js == IF a = 0 THEN {}
            ELSE {j \in a..Len(s) :
                    /\ \A k \in a..(j - 1) : s[k] # "\n"
                    /\ s[j] \in OpenParens
                    /\ closeAt(j) # 0}
  IN IF js = {} THEN NoMatch
     ELSE [found |-> TRUE, all |-> SubSeq(s, i, closeAt(MinOf(js))),
           group |-> <<>>]

\* /\(([^)]+)\)/ at i
InsideParenAt(s, i) ==
  IF i > Len(s) \/ s[i] # "(" THEN NoMatch
  ELSE LET e == SkipUntil(s, i + 1, ")")
       IN IF e > i + 1 /\ e <= Len(s)
          THEN [found |-> TRUE, all |-> SubSeq(s, i, e),
                group |-> SubSeq(s, i + 1, e - 1)]
          ELSE NoMatch

\* /(标的\s*[:：].*?\([^)]+\))/ at i
ParenMatchAt(s, i) ==
  LET a == LabelEnd(s, i)
      js == IF a = 0 THEN {}
            ELSE {j \in a..Len(s) :
                    /\ \A k \in a..(j - 1) : s[k] # "\n"
                    /\ InsideParenAt(s, j).found}
  IN IF js = {} THEN NoMatch
     ELSE LET j == MinOf(js)
              all == SubSeq(s, i, j + Len(InsideParenAt(s, j).all) - 1)
          IN [found |-> TRUE, all |-> all, group |-> all]

\* the regular expression named by pattern, tried at index i
MatchAt(pattern, s, i) ==
  CASE pattern = "DigitsAt" -> DigitsAt(s, i)
    [] pattern = "CodeMatchAt" -> CodeMatchAt(s, i)
    [] pattern = "SymbolMatchAt" -> SymbolMatchAt(s, i)
    [] pattern = "AlreadyFormattedAt" -> AlreadyFormattedAt(s, i)
    [] pattern = "InsideParenAt" -> InsideParenAt(s, i)
    [] pattern = "ParenMatchAt" -> ParenMatchAt(s, i)

\* String.prototype.match without the g flag: the leftmost match
FirstMatch(s, pattern) ==
  LET hits == {i \in 1..Len(s) : MatchAt(pattern, s, i).found}
  IN IF hits = {} THEN NoMatch ELSE MatchAt(pattern, s, MinOf(hits))

----------------------------------------------------------------------------
(* The single-line pre-formatter of webhook.js *)

\* const keywords = ['周期:', '信号:', '级别:', '交易所时间:', '价格:', '原因:', '当前价格:']
keywords ==
  << <<"u_zhou", "u_qi", ":">>,
     <<"u_xin", "u_hao", ":">>,
     <<"u_ji", "u_bie", ":">>,
     <<"u_jiao", "u_yi", "u_suo", "u_shi", "u_jian", ":">>,
     <<"u_jia", "u_ge", ":">>,
     <<"u_yuan", "u_yin", ":">>,
     <<"u_dang", "u_qian", "u_jia", "u_ge", ":">> >>

\* tempBody.replace(new RegExp(`[\\s,]*(${keyword})`, 'g'), `\n$1`)
RECURSIVE ReplaceKeyword(_, _)
ReplaceKeyword(s, kw) ==
  IF s = <<>> THEN <<>>
  ELSE LET e == SkipWhile(s, 1, SpaceOrComma)
       IN IF StartsWithAt(s, e, kw)
          THEN <<"\n">> \o kw
                 \o ReplaceKeyword(SubSeq(s, e + Len(kw), Len(s)), kw)
          ELSE <<Head(s)>> \o ReplaceKeyword(Tail(s), kw)

\* keywords.forEach(keyword => ...), from keyword k on
RECURSIVE ForEachKeyword(_, _)
ForEachKeyword(s, k) ==
  IF k > Len(keywords) THEN s
  ELSE ForEachKeyword(ReplaceKeyword(s, keywords[k]), k + 1)

\* tempBody.replace(/,\s*/g, '\n')
RECURSIVE ReplaceCommas(_)
ReplaceCommas(s) ==
  IF s = <<>> THEN <<>>
  ELSE IF Head(s) = ","
  THEN <<"\n">> \o ReplaceCommas(SubSeq(s, SkipWhile(s, 2, Space), Len(s)))
  ELSE <<Head(s)>> \o ReplaceCommas(Tail(s))

\* tempBody.split('\n').map(line => line.trim()).filter(line => line).join('\n')
TrimLines(s) ==
  LET lines == Split(s, "\n")
      trimmed == [i \in 1..Len(lines) |-> Trim(lines[i])]
      IsLine(l) == l # <<>>
  IN Join(SelectSeq(trimmed, IsLine), "\n")

PreFormatterTriggered(body) ==
  /\ ~Includes(body, <<"\n">>)
  /\ Includes(body, Label \o <<":">>)
  /\ Includes(body, <<",">>)

PreFormat(body) ==
  IF PreFormatterTriggered(body)
  THEN TrimLines(ReplaceCommas(ForEachKeyword(body, 1)))
  ELSE body

----------------------------------------------------------------------------
(* Name resolution: the static table, the market classifier, the parsers   *)
(* of the two providers' responses                                         *)

\* the keys of SYMBOL_MAP, character by character
SymbolKeys ==
  { <<"C","L","1","!">>, <<"G","C","1","!">>, <<"S","I","1","!">>,
    <<"H","G","1","!">>, <<"N","G","1","!">>, <<"R","B","1","!">>,
    <<"I","O","D","E","X">>,
    <<"D","X","Y">>, <<"X","A","U","U","S","D">>, <<"X","A","G","U","S","D">>,
    <<"E","U","R","U","S","D">>, <<"G","B","P","U","S","D">>,
    <<"U","S","D","J","P","Y">>, <<"A","U","D","U","S","D">>,
    <<"B","T","C","U","S","D","T">>, <<"B","T","C","U","S","D">>,
    <<"E","T","H","U","S","D","T">>, <<"E","T","H","U","S","D">>,
    <<"U","S","1","0","Y">>, <<"U","S","0","2","Y">>,
    <<"S","P","X">>, <<"N","D","X">> }

\* property names every object literal inherits from Object.prototype
\* that the extraction pattern [A-Za-z0-9!_.-]+ can capture
InheritedKeys ==
  { <<"c","o","n","s","t","r","u","c","t","o","r">>,
    <<"t","o","S","t","r","i","n","g">>,
    <<"v","a","l","u","e","O","f">>,
    <<"_","_","p","r","o","t","o","_","_">> }

\* SYMBOL_MAP[symbol]: the display name of a key (one token stands for the
\* whole name), the inherited member for an inherited property name (one
\* token stands for its string form), undefined otherwise
SYMBOL_MAP(symbol) ==
  IF symbol \in SymbolKeys THEN <<"u_name_of">> \o symbol
  ELSE IF symbol \in InheritedKeys THEN <<"<native ", "member>">>
  ELSE Null

\* the classifier with a leading 9 sent to market A as well
MarketPrefix000With9(stockCode) ==
  IF Len(stockCode) \in 1..5 /\ AllDigits(stockCode) THEN "hk"
  ELSE IF Len(stockCode) = 6 /\ AllDigits(stockCode)
  THEN IF stockCode[1] \in {"6", "5", "9"} THEN "sh"
       ELSE IF stockCode[1] \in {"0", "3", "1"} THEN "sz"
       ELSE "none"
  ELSE "none"

\* part_000: /^\d{1,5}$/ ... /^\d{6}$/ ... startsWith
MarketPrefix000(stockCode) ==
  IF Len(stockCode) \in 1..5 /\ AllDigits(stockCode) THEN "hk"
  ELSE IF Len(stockCode) = 6 /\ AllDigits(stockCode)
  THEN IF stockCode[1] \in {"6", "5"} THEN "sh"
       ELSE IF stockCode[1] \in {"0", "3", "1"} THEN "sz"
       ELSE "none"
  ELSE "none"

\* webhook.js, part_001: stockCode.length <= 5 && /^\d+$/ ... length === 6
MarketPrefixWebhook(stockCode) ==
  IF Len(stockCode) <= 5 /\ Len(stockCode) >= 1 /\ AllDigits(stockCode)
  THEN "hk"
  ELSE IF Len(stockCode) = 6 /\ AllDigits(stockCode)
  THEN IF stockCode[1] \in {"6", "5"} THEN "sh"
       ELSE IF stockCode[1] \in {"0", "3", "1"} THEN "sz"
       ELSE "none"
  ELSE "none"

\* part_000: text.split('"')[1]?.split(',')[0]?.trim(); return name || null
SinaName000(text) ==
  LET parts == Split(text, "\"")
  IN IF Len(parts) < 2 THEN Null
     ELSE LET name == Trim(Split(parts[2], ",")[1])
          IN IF name = <<>> THEN Null ELSE name

\* webhook.js: parts.length > 1 && parts[1] && parts[1].length > 1
SinaNameWebhook(text) ==
  LET parts == Split(text, "\"")
  IN IF Len(parts) > 1 /\ parts[2] # <<>> /\ Len(parts[2]) > 1
     THEN Split(parts[2], ",")[1]
     ELSE Null

\* part_000: parts.length > 1 ? parts[1]?.trim() || null : null
TencentName000(text) ==
  LET parts == Split(text, "~")
  IN IF Len(parts) > 1
     THEN (IF Trim(parts[2]) = <<>> THEN Null ELSE Trim(parts[2]))
     ELSE Null

\* webhook.js: parts.length > 1 && parts[1]
TencentNameWebhook(text) ==
  LET parts == Split(text, "~")
  IN IF Len(parts) > 1 /\ parts[2] # <<>> THEN parts[2] ELSE Null

\* the code a provider's URL carries
SinaUrlCode(stockCode, marketPrefix) == stockCode

TencentUrlCode(stockCode, marketPrefix) ==
  IF marketPrefix = "hk" THEN PadStart(stockCode, 5) ELSE stockCode

----------------------------------------------------------------------------
(* Bounds and inputs *)

\* how many times a text is sent through the enrichment step (the second
\* and later passes take the previous output as their input)
MaxRounds == 2

\* how far past a call's timeout the clock is followed
MaxOverrun == 1

\* fetchWithTimeout's default timeout (2000 ms), in seconds
TimeoutSeconds000 == 2

\* fetch(url, { timeout: 3000 }), in seconds
TimeoutSecondsWebhook == 3

Variants == {"part_000", "part_001", "webhook"}

Seps == { <<":", " ">>, <<":">>, <<"u_colon">> }

Code000001 == <<"0", "0", "0", "0", "0", "1">>

Code00700 == <<"0", "0", "7", "0", "0">>

Code7Digits == <<"1", "2", "3", "4", "5", "6", "7">>

\* d followed by 00001, for each leading digit d
SixDigitCodes == { <<d, "0", "0", "0", "0", "1">> : d \in Digits }

PlainCodes ==
  { Code000001, <<"6", "0", "0", "0", "0", "0">>, Code00700, Code7Digits,
    <<"7", "0", "0">>,
    <<"C", "L", "1", "!">>, <<"A", "B", "C">>,
    <<"c","o","n","s","t","r","u","c","t","o","r">> }

\* what the part_001 handler can find between parentheses
ParenCodes ==
  SixDigitCodes \cup
  { Code00700, Code7Digits, <<"7">>, <<"1", "2", "3", "4">>,
    <<"1", "2", "a", "4", "5", "6">>, <<"a">>, <<" ">> }

PeriodField == <<",", " ", "u_zhou", "u_qi", ":", " ", "5">>

Suffixes == { <<>>, PeriodField, <<" ", "(", "a", ")">> }

SomeName == <<"u_ping", "u_an">>

PlainTexts ==
  { Label \o sep \o code \o suffix :
      sep \in Seps, code \in PlainCodes \cup SixDigitCodes, suffix \in Suffixes }

TwoCodeTexts ==
  { Label \o <<":", " ">> \o c1 \o between \o Label \o <<":", " ">> \o c2 :
      c1 \in {Code000001, Code00700},
      c2 \in {Code000001, Code00700},
      between \in { <<"\n">>, <<",", " ">> } }

FormattedTexts ==
  { Label \o <<":">> \o gap1 \o SomeName \o gap2 \o <<paren[1]>> \o code
      \o <<paren[2]>> \o suffix :
      gap1 \in { <<>>, <<" ">> },
      gap2 \in { <<>>, <<" ">> },
      paren \in { <<"(", ")">>, <<"u_lparen", "u_rparen">> },
      code \in ParenCodes,
      suffix \in { <<>>, PeriodField } }

UnlabelledTexts ==
  { <<>>, <<"h", "i">>, Code000001,
    <<"u_zhou", "u_qi", ":", " ", "5", ",", " ", "u_jia", "u_ge", ":", "1">>,
    Label \o <<" ">> \o Code000001,
    Label \o <<":", ",">> \o Code00700 }

\* a labelled code, another field, and a parenthesis later on the line
ParenLaterTexts ==
  { Label \o <<":", " ">> \o Code000001 \o PeriodField
      \o <<" ", "(", "7", ")">> }

Texts ==
  PlainTexts \cup TwoCodeTexts \cup FormattedTexts \cup UnlabelledTexts
    \cup ParenLaterTexts

\* decoded response bodies of provider A (Sina)
SinaName == <<"u_ping", "u_an">>

SinaBodies ==
  { <<"v", "=", "\"">> \o SinaName \o <<",", "1", "\"", ";">>,
    <<"v", "=", "\"", " ">> \o SinaName \o <<" ", ",", "1", "\"", ";">>,
    <<"v", "=", "\"", "\"", ";">>,
    <<"v", "=", "\"", ",", "1", "\"", ";">>,
    <<"v", ";">> }

\* decoded response bodies of provider B (Tencent)
TencentName == <<"u_yin", "u_hang">>

TencentBodies ==
  { <<"v", "=", "\"", "5", "1", "~">> \o TencentName \o <<"~", "1", "\"", ";">>,
    <<"v", "=", "\"", "5", "1", "~", " ">> \o TencentName \o <<" ", "~", "1", "\"", ";">>,
    <<"v", "=", "\"", "5", "1", "~", "~", "1", "\"", ";">>,
    <<"v", ";">> }

----------------------------------------------------------------------------
(* Extraction and rewriting, per handler *)

NoCode == [code |-> Null, str |-> <<>>]

\* part_000 processMessage: match[1] (symbol) and match[0] (originalPattern)
Extract000(body) ==
  LET match == FirstMatch(body, "SymbolMatchAt")
  IN IF match.found THEN [code |-> match.group, str |-> match.all] ELSE NoCode

\* part_001 handler: step 1 (parenMatch), then step 2 (commaMatch)
Extract001(messageBody) ==
  LET parenMatch == FirstMatch(messageBody, "ParenMatchAt")
      codeInsideParen == FirstMatch(parenMatch.all, "InsideParenAt")
      step1 == IF parenMatch.found /\ codeInsideParen.found
               THEN [code |-> Trim(codeInsideParen.group),
                     str |-> parenMatch.all]
               ELSE NoCode
      commaMatch == FirstMatch(messageBody, "CodeMatchAt")
      codeInMatch == FirstMatch(commaMatch.all, "DigitsAt")
  IN IF Truthy(step1.code) THEN step1
     ELSE IF commaMatch.found /\ codeInMatch.found
     THEN [code |-> codeInMatch.all, str |-> commaMatch.all]
     ELSE step1

\* webhook.js processMessage: alreadyFormattedMatch, then codeMatch
ExtractWebhook(messageToProcess) ==
  LET codeMatch == FirstMatch(messageToProcess, "CodeMatchAt")
  IN IF FirstMatch(messageToProcess, "AlreadyFormattedAt").found THEN NoCode
     ELSE IF codeMatch.found
     THEN [code |-> FirstMatch(codeMatch.all, "DigitsAt").all,
           str |-> codeMatch.all]
     ELSE NoCode

Extract(v, text) ==
  IF v = "part_000" THEN Extract000(text)
  ELSE IF v = "part_001" THEN Extract001(text)
  ELSE ExtractWebhook(text)

\* part_000: body.replace(originalPattern, `标的: **${name}(${symbol})**`)
Rewrite000(body, originalPattern, symbol, nm) ==
  IF Truthy(nm)
  THEN ReplaceFirst(body, originalPattern,
         Label \o <<":", " ", "*", "*">> \o nm \o <<"(">> \o symbol
           \o <<")", "*", "*">>)
  ELSE body

\* part_001: messageBody.replace(stringToReplace, `标的: ${chineseName} (${stockCode})`)
Rewrite001(messageBody, str, code, chineseName) ==
  IF Truthy(chineseName)
  THEN ReplaceFirst(messageBody, str,
         Label \o <<":", " ">> \o chineseName \o <<" ", "(">> \o code
           \o <<")">>)
  ELSE messageBody

\* webhook.js: `${prefix}${chineseName} （${stockCode}）`
RewriteWebhook(messageToProcess, str, code, chineseName) ==
  IF Truthy(chineseName)
  THEN LET prefix == SubSeq(str, 1, IndexOf(str, code) - 1)
       IN ReplaceFirst(messageToProcess, str,
            prefix \o chineseName \o <<" ", "u_lparen">> \o code
              \o <<"u_rparen">>)
  ELSE messageToProcess

\* the replacement without its if (name) guard
RewriteUnguarded(v, text, str, code, nm) ==
  ReplaceFirst(text, str,
    Label \o <<":", " ">> \o nm \o <<"(">> \o code \o <<")">>)

Rewrite(v, text, str, code, nm) ==
  IF v = "part_000" THEN Rewrite000(text, str, code, nm)
  ELSE IF v = "part_001" THEN Rewrite001(text, str, code, nm)
  ELSE RewriteWebhook(text, str, code, nm)

\* whether the handler asks getChineseStockName about the extracted code
AsksResolver(v, code, tableName) ==
  IF v = "part_000"
  THEN code # Null /\ ~Truthy(tableName)
       /\ Len(code) \in 1..6 /\ AllDigits(code)
  ELSE Truthy(code)

MarketPrefix(v, code) ==
  IF v = "part_000" THEN MarketPrefix000(code) ELSE MarketPrefixWebhook(code)

\* provider B is asked whatever provider A returned
GotNameNever(v, value) == FALSE

\* getChineseStockName: does provider A's value end the chain?
\* part_000: sina ?? tencent; the others: if (chineseName) return chineseName
GotName(v, value) ==
  IF v = "part_000" THEN value # Null ELSE Truthy(value)

\* the provider functions without their try/catch
CatchRethrows(outcome) == FALSE

\* catch { return null } of both provider functions
CatchReturnsNull(outcome) == TRUE

\* the timer once fetch() has resolved with the response headers:
\* fetchWithTimeout's finally { clearTimeout(id) } in part_000; the
\* timeout option of fetch() in the others stays in force while the body
\* is read
TimerAfterHeaders(v) == IF v = "part_000" THEN "cleared" ELSE "armed"

Timeout(v) ==
  IF v = "part_000" THEN TimeoutSeconds000 ELSE TimeoutSecondsWebhook

SinaNameOf(v, text) ==
  IF v = "part_000" THEN SinaName000(text) ELSE SinaNameWebhook(text)

TencentNameOf(v, text) ==
  IF v = "part_000" THEN TencentName000(text) ELSE TencentNameWebhook(text)

----------------------------------------------------------------------------
(* State *)

VARIABLES
  variant,          \* which of the three handlers runs
  round,            \* the pass over the text (1 = the original alert)
  body,             \* the text handed to the enrichment step
  pc,               \* where the asynchronous enrichment step stands
  messageToProcess, \* the text after the pre-formatter
  stockCode,        \* the extracted code (symbol), Null when none
  stringToReplace,  \* the matched label-and-code text (originalPattern)
  marketPrefix,     \* "hk", "sh", "sz" or "none"
  name,             \* the resolved name, Null when none
  result,           \* the text the enrichment step returns
  requests,         \* the provider calls of this pass, in order
  timer,            \* the cancellation timer of the call in flight
  elapsed,          \* seconds since the call in flight was started
  resolved,         \* the successful resolutions of the earlier passes
  method,           \* req.method
  key,              \* the key parameter of the request URL
  hpc,              \* where the request handler stands
  responses,        \* the status codes sent with res.status(..).json(..)
  forwards          \* the outbound forwards issued, in order

vars == <<variant, round, body, pc, messageToProcess, stockCode,
          stringToReplace, marketPrefix, name, result, requests, timer,
          elapsed, resolved, method, key, hpc, responses, forwards>>

\* the request handler's own state
hvars == <<method, key, hpc, responses, forwards>>

\* the enrichment step (or a pure function) is followed on its own, outside
\* a request
NoRequest ==
  /\ method = "POST"
  /\ key = "wecom"
  /\ hpc = "none"
  /\ responses = <<>>
  /\ forwards = <<>>

FetchPhases == {"sinaFetch", "tencentFetch"}

BodyPhases == {"sinaBody", "tencentBody"}

InFlight == FetchPhases \cup BodyPhases

Provider == IF pc \in {"sinaFetch", "sinaBody"} THEN "sina" ELSE "tencent"

Thrown == {"reject", "abort", "bodyThrow"}

NewRequest(provider, urlCode) ==
  [provider |-> provider, code |-> urlCode, outcome |-> "pending",
   value |-> Null]

Init ==
  /\ variant \in Variants
  /\ round = 1
  /\ body \in Texts
  /\ pc = "start"
  /\ messageToProcess = <<>>
  /\ stockCode = Null
  /\ stringToReplace = <<>>
  /\ marketPrefix = "none"
  /\ name = Null
  /\ result = <<>>
  /\ requests = <<>>
  /\ timer = "idle"
  /\ elapsed = 0
  /\ resolved = {}
  /\ NoRequest

\* the enrichment step returns: the text is rewritten if a name was found
Finish(text, str, code, nm, reqs) ==
  /\ pc' = "done"
  /\ name' = nm
  /\ result' = Rewrite(variant, text, str, code, nm)
  /\ requests' = reqs
  /\ timer' = "idle"
  /\ elapsed' = 0

\* processMessage (the extraction part of the part_001 handler) up to its
\* first await: pre-format, extract, static table, market classification,
\* and the request to provider A
ProcessMessage ==
  /\ pc = "start"
  /\ \E text \in {IF variant = "webhook" THEN PreFormat(body) ELSE body} :
     \E ex \in {Extract(variant, text)} :
     \E tableName \in {IF variant = "part_000" /\ ex.code # Null
                       THEN SYMBOL_MAP(ex.code) ELSE Null} :
     \E market \in {IF AsksResolver(variant, ex.code, tableName)
                    THEN MarketPrefix(variant, ex.code) ELSE "none"} :
        /\ messageToProcess' = text
        /\ stockCode' = ex.code
        /\ stringToReplace' = ex.str
        /\ marketPrefix' = market
        /\ IF market # "none"
           THEN /\ pc' = "sinaFetch"
                /\ requests' = <<NewRequest("sina", SinaUrlCode(ex.code, market))>>
                /\ timer' = "armed"
                /\ elapsed' = 0
                /\ UNCHANGED <<name, result>>
           ELSE Finish(text, ex.str, ex.code, tableName, <<>>)
  /\ UNCHANGED <<hvars, resolved, variant, round, body>>

\* a provider function returns value (or throws past its catch)
ProviderReturns(value, outcome) ==
  \E reqs \in {[requests EXCEPT ![Len(requests)].outcome = outcome,
                                 ![Len(requests)].value = value]} :
     /\ IF outcome \in Thrown /\ ~CatchReturnsNull(outcome)
        THEN /\ pc' = "threw"
             /\ requests' = reqs
             /\ timer' = "idle"
             /\ elapsed' = 0
             /\ UNCHANGED <<name, result>>
        ELSE IF Provider = "sina" /\ ~GotName(variant, value)
        THEN /\ pc' = "tencentFetch"
             /\ requests' = Append(reqs,
                  NewRequest("tencent", TencentUrlCode(stockCode, marketPrefix)))
             /\ timer' = "armed"
             /\ elapsed' = 0
             /\ UNCHANGED <<name, result>>
        ELSE Finish(messageToProcess, stringToReplace, stockCode, value, reqs)
     /\ UNCHANGED <<hvars, resolved, variant, round, body, messageToProcess, stockCode,
                    stringToReplace, marketPrefix>>

\* fetch() settles: a network error, a non-2xx status, or the headers of
\* a 2xx response (the body is then read)
FetchSettles ==
  /\ pc \in FetchPhases
  /\ \E o \in {"reject", "notOk", "ok"} :
       IF o = "ok"
       THEN /\ pc' = IF Provider = "sina" THEN "sinaBody" ELSE "tencentBody"
            /\ timer' = TimerAfterHeaders(variant)
            /\ UNCHANGED <<hvars, resolved, variant, round, body, messageToProcess, stockCode,
                           stringToReplace, marketPrefix, name, result,
                           requests, elapsed>>
       ELSE ProviderReturns(Null, o)

\* resp.arrayBuffer() and the decode settle: an exception, or a text from
\* which the name field is taken
BodySettles ==
  /\ pc \in BodyPhases
  /\ \/ ProviderReturns(Null, "bodyThrow")
     \/ \E text \in (IF Provider = "sina" THEN SinaBodies ELSE TencentBodies) :
          \E value \in {IF Provider = "sina" THEN SinaNameOf(variant, text)
                        ELSE TencentNameOf(variant, text)} :
            ProviderReturns(value, IF Truthy(value) THEN "name" ELSE "noName")

\* the cancellation timer fires: the pending await rejects
TimerFires ==
  /\ pc \in InFlight
  /\ timer = "armed"
  /\ elapsed >= Timeout(variant)
  /\ ProviderReturns(Null, "abort")

\* a second passes while a provider call is in flight; an armed timer
\* fires no later than its deadline
Tick ==
  /\ pc \in InFlight
  /\ elapsed < Timeout(variant) + MaxOverrun
  /\ timer = "armed" => elapsed < Timeout(variant)
  /\ elapsed' = elapsed + 1
  /\ UNCHANGED <<hvars, resolved, variant, round, body, pc, messageToProcess, stockCode,
                 stringToReplace, marketPrefix, name, result, requests, timer>>

\* what a finished pass adds to the record of successful resolutions
Resolution ==
  IF marketPrefix # "none" /\ Truthy(name)
  THEN {[market |-> marketPrefix, code |-> stockCode, name |-> name]}
  ELSE {}

\* a later request arrives: the same alert again, or the output of the
\* earlier pass sent through the enrichment step once more
Reprocess ==
  /\ pc = "done"
  /\ round < MaxRounds
  /\ round' = round + 1
  /\ body' \in {body, result}
  /\ resolved' = resolved \cup Resolution
  /\ pc' = "start"
  /\ messageToProcess' = <<>>
  /\ stockCode' = Null
  /\ stringToReplace' = <<>>
  /\ marketPrefix' = "none"
  /\ name' = Null
  /\ result' = <<>>
  /\ requests' = <<>>
  /\ UNCHANGED <<hvars, variant, timer, elapsed>>

Next ==
  \/ ProcessMessage
  \/ FetchSettles
  \/ BodySettles
  \/ TimerFires
  \/ Tick
  \/ Reprocess

Spec == Init /\ [][Next]_vars

----------------------------------------------------------------------------
(* The signal-direction classifier of part_000, on its own *)

Uppercase ==
  <<"A", "B", "C", "D", "E", "F", "G", "H", "I", "J", "K", "L", "M",
    "N", "O", "P", "Q", "R", "S", "T", "U", "V", "W", "X", "Y", "Z">>

Lowercase ==
  <<"a", "b", "c", "d", "e", "f", "g", "h", "i", "j", "k", "l", "m",
    "n", "o", "p", "q", "r", "s", "t", "u", "v", "w", "x", "y", "z">>

\* the i flag: letters compare without case
ToLower(s) ==
  [i \in 1..Len(s) |->
     IF \E k \in 1..Len(Uppercase) : Uppercase[k] = s[i]
     THEN Lowercase[CHOOSE k \in 1..Len(Uppercase) : Uppercase[k] = s[i]]
     ELSE s[i]]

\* /(多|buy|long|看涨|做多|多头)/i
LongKeywords ==
  { <<"u_duo">>, <<"b", "u", "y">>, <<"l", "o", "n", "g">>,
    <<"u_kan", "u_zhang">>, <<"u_zuo", "u_duo">>, <<"u_duo", "u_tou">> }

\* /(空|sell|short|看跌|做空|空头)/i
ShortKeywords ==
  { <<"u_kong">>, <<"s", "e", "l", "l">>, <<"s", "h", "o", "r", "t">>,
    <<"u_kan", "u_die">>, <<"u_zuo", "u_kong">>, <<"u_kong", "u_tou">> }

\* regex.test(message) for an alternation of literal keywords
TestAny(message, kws) == \E kw \in kws : Includes(ToLower(message), kw)

GreenPrefix == <<"u_green_circle", " ">>

RedPrefix == <<"u_red_circle", " ">>

getSignalPrefix(message) ==
  IF TestAny(message, LongKeywords) THEN GreenPrefix
  ELSE IF TestAny(message, ShortKeywords) THEN RedPrefix
  ELSE <<>>

\* how many words a classified message holds
MaxWords == 2

SignalWords ==
  LongKeywords \cup ShortKeywords
    \cup { <<"S", "e", "l", "l">>, <<"B", "U", "Y">>, <<"o", "k">> }

RECURSIVE MessagesOf(_)
MessagesOf(n) ==
  IF n = 0 THEN { <<>> }
  ELSE MessagesOf(n - 1)
         \cup { m \o <<" ">> \o w : m \in MessagesOf(n - 1) \ { <<>> },
                                    w \in SignalWords }
         \cup SignalWords

SignalInit ==
  /\ variant = "part_000"
  /\ round = 1
  /\ body \in MessagesOf(MaxWords)
  /\ pc = "signal"
  /\ messageToProcess = <<>>
  /\ stockCode = Null
  /\ stringToReplace = <<>>
  /\ marketPrefix = "none"
  /\ name = Null
  /\ result = <<>>
  /\ requests = <<>>
  /\ timer = "idle"
  /\ elapsed = 0
  /\ resolved = {}
  /\ NoRequest

\* const signalPrefix = getSignalPrefix(processedContent)
ClassifySignal ==
  /\ pc = "signal"
  /\ pc' = "signalDone"
  /\ result' = getSignalPrefix(body)
  /\ UNCHANGED <<hvars, resolved, variant, round, body, messageToProcess, stockCode,
                 stringToReplace, marketPrefix, name, requests, timer, elapsed>>

SignalNext == ClassifySignal

SignalSpec == SignalInit /\ [][SignalNext]_vars

----------------------------------------------------------------------------
(* The single-line pre-formatter of webhook.js, on its own *)

\* how many labelled fields follow the instrument in a single-line alert
MaxFields == 2

\* labelled fields of an alert: 周期: 5, 信号: 多, 价格: 1, 当前价格: 2.3,
\* 原因: a b
Fields ==
  { <<"u_zhou", "u_qi", ":", " ", "5">>,
    <<"u_xin", "u_hao", ":", " ", "u_duo">>,
    <<"u_jia", "u_ge", ":", " ", "1">>,
    <<"u_dang", "u_qian", "u_jia", "u_ge", ":", " ", "2", ".", "3">>,
    <<"u_yuan", "u_yin", ":", "a", " ", "b">> }

FieldSeps == { <<",", " ">>, <<",">>, <<" ">> }

RECURSIVE SingleLinesOf(_)
SingleLinesOf(n) ==
  IF n = 0 THEN { Label \o <<":", " ">> \o Code000001 }
  ELSE SingleLinesOf(n - 1)
         \cup { s \o sep \o f :
                  s \in SingleLinesOf(n - 1), sep \in FieldSeps, f \in Fields }

PreFormatInit ==
  /\ variant = "webhook"
  /\ round = 1
  /\ body \in SingleLinesOf(MaxFields)
  /\ pc = "preformat"
  /\ messageToProcess = <<>>
  /\ stockCode = Null
  /\ stringToReplace = <<>>
  /\ marketPrefix = "none"
  /\ name = Null
  /\ result = <<>>
  /\ requests = <<>>
  /\ timer = "idle"
  /\ elapsed = 0
  /\ resolved = {}
  /\ NoRequest

\* let messageToProcess = body; if (...) { ... messageToProcess = ... }
ApplyPreFormat ==
  /\ pc = "preformat"
  /\ pc' = "preformatDone"
  /\ messageToProcess' = PreFormat(body)
  /\ UNCHANGED <<hvars, resolved, variant, round, body, stockCode, stringToReplace,
                 marketPrefix, name, result, requests, timer, elapsed>>

PreFormatNext == ApplyPreFormat

PreFormatSpec == PreFormatInit /\ [][PreFormatNext]_vars

----------------------------------------------------------------------------
(* The request handler *)

\* the variables of the enrichment step
evars == <<variant, round, body, pc, messageToProcess, stockCode,
           stringToReplace, marketPrefix, name, result, requests, timer,
           elapsed, resolved>>

Methods == {"POST", "GET"}

\* values of the key parameter: absent, not configured, the name of an
\* inherited member, configured without a url, configured for WeCom,
\* configured without a type
Keys == {"", "unknown", "constructor", "nourl", "wecom", "raw"}

\* webhookMap[key]: defined tells whether the lookup yields a value at
\* all, url and type are "" where the value has none
webhookMap(k) ==
  CASE k = "wecom" -> [defined |-> TRUE, url |-> "https://wecom", type |-> "wecom"]
    [] k = "raw" -> [defined |-> TRUE, url |-> "https://raw", type |-> ""]
    [] k = "nourl" -> [defined |-> TRUE, url |-> "", type |-> "wecom"]
    [] k = "constructor" -> [defined |-> TRUE, url |-> "", type |-> ""]
    [] OTHER -> [defined |-> FALSE, url |-> "", type |-> ""]

\* the handler without its method check
RejectionWithoutMethodCheck(v, m, k) ==
  IF v = "part_000"
  THEN (IF k = "" \/ webhookMap(k).url = "" THEN 404 ELSE 0)
  ELSE IF k = "" THEN 400
  ELSE IF ~webhookMap(k).defined \/ webhookMap(k).url = "" THEN 404
  ELSE 0

\* the status of the early return, 0 when the request is accepted
Rejection(v, m, k) ==
  IF m # "POST" THEN 405
  ELSE IF v = "part_000"
  THEN (IF k = "" \/ webhookMap(k).url = "" THEN 404 ELSE 0)
  ELSE IF k = "" THEN 400
  ELSE IF ~webhookMap(k).defined \/ webhookMap(k).url = "" THEN 404
  ELSE 0

\* part_000: isWecom; the others: destinationType === 'wecom'
IsWecom(v, type) ==
  IF v = "part_000" THEN type \in {"wecom", "jubaopen"} ELSE type = "wecom"

Tag == <<"[", "u_ju", "u_bao", "u_pen", "]", " ">>

\* part_000: `${signalPrefix}[聚宝盆] ${processedContent}`; the others
\* send the processed content
FinalMessage(v, content) ==
  IF v = "part_000" THEN getSignalPrefix(content) \o Tag \o content
  ELSE content

\* how the outbound fetch can settle; only fetchWithTimeout can abort
ForwardOutcomes(v) ==
  {"ok", "notOk", "reject"} \cup (IF v = "part_000" THEN {"abort"} ELSE {})

\* a handler that answers 200 unless an await threw
ResponseAfterForwardLenient(v, outcome, text) ==
  IF outcome \in {"reject", "abort"} THEN 500
  ELSE IF outcome = "notOk" /\ text = "throw" THEN 500
  ELSE 200

\* the status sent after the forward settled with outcome (and, for a
\* non-ok status, after reading the response text settled with text)
ResponseAfterForward(v, outcome, text) ==
  IF outcome \in {"reject", "abort"} THEN 500
  ELSE IF outcome = "notOk" /\ text = "throw" THEN 500
  ELSE IF outcome = "notOk" /\ v = "part_000" THEN 500
  ELSE 200

\* raw request bodies (plain text)
HandlerBodies ==
  { <<" ">> \o Label \o <<":", " ">> \o Code00700 \o <<"\n">>,
    Label \o <<":", "7", "0", "0">>,
    <<"h", "i">>,
    Label \o <<":", " ">> \o Code000001 \o PeriodField,
    Label \o <<":", " ", "C", "L", "1", "!">>,
    <<"u_zuo", "u_duo", " ">> \o Label \o <<":", "6", "0", "0", "0", "0", "0">> }

HandlerInit ==
  /\ variant \in Variants
  /\ round = 1
  /\ body \in HandlerBodies
  /\ pc = "idle"
  /\ messageToProcess = <<>>
  /\ stockCode = Null
  /\ stringToReplace = <<>>
  /\ marketPrefix = "none"
  /\ name = Null
  /\ result = <<>>
  /\ requests = <<>>
  /\ timer = "idle"
  /\ elapsed = 0
  /\ resolved = {}
  /\ method \in Methods
  /\ key \in Keys
  /\ hpc = "entry"
  /\ responses = <<>>
  /\ forwards = <<>>

\* return res.status(status).json(...)
Respond(status) ==
  /\ responses' = Append(responses, status)
  /\ hpc' = "returned"

\* the method check and the key lookup
Validate ==
  /\ hpc = "entry"
  /\ \E status \in {Rejection(variant, method, key)} :
       IF status # 0 THEN Respond(status)
       ELSE /\ hpc' = "readBody"
            /\ UNCHANGED responses
  /\ UNCHANGED <<evars, method, key, forwards>>

\* await getRawBody(req): the request stream ends, or errors (the catch
\* answers 500); the text is trimmed in part_000 and webhook.js
GetRawBody ==
  /\ hpc = "readBody"
  /\ \/ /\ hpc' = "process"
        /\ pc' = "start"
        /\ body' = IF variant = "part_001" THEN body ELSE Trim(body)
        /\ UNCHANGED responses
     \/ /\ Respond(500)
        /\ UNCHANGED <<pc, body>>
  /\ UNCHANGED <<variant, round, messageToProcess, stockCode, stringToReplace,
                 marketPrefix, name, result, requests, timer, elapsed,
                 resolved, method, key, forwards>>

\* the outbound fetch is issued once the enrichment step has returned
Forward ==
  /\ hpc = "process"
  /\ pc = "done"
  /\ hpc' = "forward"
  /\ forwards' = Append(forwards,
       [content |-> FinalMessage(variant, result),
        wecom |-> IsWecom(variant, webhookMap(key).type),
        outcome |-> "pending"])
  /\ UNCHANGED <<evars, method, key, responses>>

\* the outbound fetch settles
ForwardSettles ==
  /\ hpc = "forward"
  /\ \E o \in ForwardOutcomes(variant) :
       /\ forwards' = [forwards EXCEPT ![Len(forwards)].outcome = o]
       /\ IF o = "notOk"
          THEN /\ hpc' = "forwardText"
               /\ UNCHANGED responses
          ELSE Respond(ResponseAfterForward(variant, o, "none"))
  /\ UNCHANGED <<evars, method, key>>

\* await resp.text() of a non-ok forward response settles
ForwardTextSettles ==
  /\ hpc = "forwardText"
  /\ \E text \in {"text", "throw"} :
       Respond(ResponseAfterForward(variant, "notOk", text))
  /\ UNCHANGED <<evars, method, key, forwards>>

HandlerNext ==
  \/ Validate
  \/ GetRawBody
  \/ ProcessMessage
  \/ FetchSettles
  \/ BodySettles
  \/ TimerFires
  \/ Tick
  \/ Forward
  \/ ForwardSettles
  \/ ForwardTextSettles

HandlerSpec == HandlerInit /\ [][HandlerNext]_vars

----------------------------------------------------------------------------
(* Claims *)

Failures == {"reject", "abort", "notOk", "bodyThrow", "noName"}

\* C1: for a code that classifies into a market, provider A is asked
\* first, provider B is asked if and only if A yielded no name, neither is
\* asked twice, and the result is the first name obtained in that order,
\* or null when neither yields one.
C1_FallbackOrder ==
  /\ Len(requests) <= 2
  /\ Len(requests) >= 1 => requests[1].provider = "sina"
  /\ Len(requests) = 2 =>
       /\ requests[2].provider = "tencent"
       /\ requests[1].outcome \in Failures
  /\ (pc = "done" /\ marketPrefix # "none") =>
       /\ Len(requests) >= 1
       /\ Len(requests) = 2 <=> requests[1].outcome # "name"
       /\ name = IF requests[1].outcome = "name" THEN requests[1].value
                 ELSE IF requests[2].outcome = "name" THEN requests[2].value
                 ELSE Null

\* provider A timed out, provider B supplied the name
C1_Witness ==
  /\ pc = "done"
  /\ Len(requests) = 2
  /\ requests[1].outcome = "abort"
  /\ requests[2].outcome = "name"
  /\ name = requests[2].value

\* C2: every provider failure is swallowed and counts as "no name": no
\* exception leaves the enrichment step, a failure of provider A is
\* followed by the request to provider B, and when both fail the returned
\* text still contains the bare code.
C2_FailuresSwallowed ==
  /\ pc # "threw"
  /\ \A k \in 1..Len(requests) :
       requests[k].outcome \in Failures => ~Truthy(requests[k].value)
  /\ (Len(requests) >= 1 /\ requests[1].outcome \in Failures) =>
       Len(requests) = 2
  /\ (pc = "done" /\ Len(requests) = 2 /\ requests[2].outcome \in Failures) =>
       /\ name = Null
       /\ Includes(result, stockCode)

\* provider A timed out and provider B's body could not be read
C2_Witness ==
  /\ pc = "done"
  /\ Len(requests) = 2
  /\ requests[1].outcome = "abort"
  /\ requests[2].outcome = "bodyThrow"
  /\ Includes(result, stockCode)

\* C3: no provider call is still in flight once more than its timeout has
\* elapsed since it was started, the reading of the response body
\* included.
C3_HardTimeBound == pc \in InFlight => elapsed <= Timeout(variant)

HasLabel(text) == \E i \in 1..Len(text) : LabelEnd(text, i) # 0

\* a label-separator-code occurrence, by the handler's own pattern
OccurrenceAt(v, text, i) ==
  IF v = "part_000" THEN SymbolMatchAt(text, i) ELSE CodeMatchAt(text, i)

Wrapped(v, nm, code) ==
  IF v = "part_000" THEN nm \o <<"(">> \o code \o <<")">>
  ELSE IF v = "part_001" THEN nm \o <<" ", "(">> \o code \o <<")">>
  ELSE nm \o <<" ", "u_lparen">> \o code \o <<"u_rparen">>

\* C5: once a name is resolved, the output contains name(code) and no
\* label is still followed by a bare code.
C5_EveryOccurrenceRewritten ==
  (pc = "done" /\ Truthy(name)) =>
    /\ Includes(result, Wrapped(variant, name, stockCode))
    /\ \A i \in 1..Len(result) : ~OccurrenceAt(variant, result, i).found

\* C6: a text whose label is already followed by name(code) keeps that
\* substring as it is.
C6_FormattedUntouched ==
  (pc = "done" /\ FirstMatch(body, "AlreadyFormattedAt").found) =>
    Includes(result, FirstMatch(body, "AlreadyFormattedAt").all)

\* the digit run that follows the label at i (empty when none)
RunAfterLabel(text, i) ==
  IF LabelEnd(text, i) = 0 THEN <<>>
  ELSE SubSeq(text, SkipWhile(text, LabelEnd(text, i), Space),
         SkipWhile(text, SkipWhile(text, LabelEnd(text, i), Space), Digits) - 1)

\* whether a digit run of length n is outside the range the handler's
\* pattern accepts: longer than 6 digits, or shorter than 5 where the
\* pattern requires digits (\d{5,6}: part_001 and webhook.js)
OutOfRange(v, n) == n > 6 \/ (n >= 1 /\ n < 5 /\ v # "part_000")

\* C7: of a digit run after the label whose length is out of range,
\* neither the run nor a part of it is sent to the resolver or wrapped in
\* a name.
C7_OutOfRangeNotExtracted ==
  \A i \in 1..Len(body) :
    OutOfRange(variant, Len(RunAfterLabel(body, i))) =>
      /\ requests # <<>> => ~Includes(RunAfterLabel(body, i), stockCode)
      /\ (pc = "done" /\ Truthy(name)) =>
           ~Includes(RunAfterLabel(body, i), stockCode)

\* C8: in part_000 a key of the static table gets its table name without
\* a remote call; a non-numeric token that is no key of the table stays
\* unresolved, without a remote call, and the text stays as it was.
C8_StaticTableExact ==
  (variant = "part_000" /\ pc = "done" /\ stockCode # Null) =>
    /\ stockCode \in SymbolKeys =>
         /\ name = <<"u_name_of">> \o stockCode
         /\ requests = <<>>
    /\ (stockCode \notin SymbolKeys /\ ~AllDigits(stockCode)) =>
         /\ name = Null
         /\ requests = <<>>
         /\ result = body

\* the classification the claim states
ClaimedMarket(code) ==
  CASE AllDigits(code) /\ Len(code) \in 1..5 -> "hk"
    [] AllDigits(code) /\ Len(code) = 6 /\ code[1] \in {"6", "5"} -> "sh"
    [] AllDigits(code) /\ Len(code) = 6 /\ code[1] \in {"0", "1", "3"} -> "sz"
    [] OTHER -> "none"

\* C9: the market of a code the resolver is asked about is hk for 1 to 5
\* digits, sh for 6 digits led by 6 or 5, sz for 6 digits led by 0, 1 or
\* 3, and none otherwise; a provider is queried exactly when there is a
\* market.
C9_MarketClassification ==
  (pc # "start" /\ pc # "signal" /\ Truthy(stockCode)
     /\ ~(variant = "part_000" /\ Truthy(SYMBOL_MAP(stockCode)))) =>
    /\ marketPrefix = ClaimedMarket(stockCode)
    /\ marketPrefix = "none" <=> (pc = "done" /\ requests = <<>>)

\* a 6-digit code led by 9 has no market and no provider is asked
C9_Witness ==
  /\ pc = "done"
  /\ stockCode = <<"9", "0", "0", "0", "0", "1">>
  /\ marketPrefix = "none"
  /\ requests = <<>>
  /\ result = body

\* C10: a message that holds a short keyword and a long keyword is
\* classified short.
C10_ShortBeforeLong ==
  (pc = "signalDone" /\ TestAny(body, ShortKeywords)
     /\ TestAny(body, LongKeywords)) =>
    result = RedPrefix

\* C11: once a code has been resolved with success, a later resolve of
\* the same (market, code) issues no call to provider A or provider B and
\* returns the name of the earlier resolution.
C11_CachedNoProviderCall ==
  \A r \in resolved :
    (r.market = marketPrefix /\ r.code = stockCode) =>
      /\ requests = <<>>
      /\ pc = "done" => name = r.name

\* the parts of the rewritten text around the matched reference: what
\* stands before the matched label, between the separator and the matched
\* code (without the parenthesis that opens on the code), and after the
\* matched code
Around(text, str, code) ==
  LET i == IndexOf(text, str)
      d == SkipWhile(text, LabelEnd(text, i), Space)
      c == MinOf({j \in d..(Len(text) + 1) :
                    j = Len(text) + 1 \/ StartsWithAt(text, j, code)})
  IN [before |-> SubSeq(text, 1, i - 1),
      between |-> Trim(SubSeq(text, d,
                     IF c - 1 >= d /\ text[c - 1] \in OpenParens
                     THEN c - 2 ELSE c - 1)),
      after |-> SubSeq(text, c + Len(code), Len(text))]

\* C12: when a reference is rewritten, the text before the matched label
\* opens the output, the text after the matched code closes it, and the
\* text between the separator and the matched code (up to a later
\* parenthesis) still stands in between.
C12_OnlyReferenceChanged ==
  (pc = "done" /\ Truthy(name)) =>
    \E ar \in {Around(messageToProcess, stringToReplace, stockCode)} :
      /\ Len(result) >= Len(ar.before) + Len(ar.after)
      /\ SubSeq(result, 1, Len(ar.before)) = ar.before
      /\ SubSeq(result, Len(result) - Len(ar.after) + 1, Len(result)) = ar.after
      /\ Includes(SubSeq(result, Len(ar.before) + 1,
                         Len(result) - Len(ar.after)), ar.between)

\* a recognised label occurrence: keywords[k] stands at i and is not the
\* tail of a longer keyword standing before it
LabelAt(text, i, k) ==
  /\ StartsWithAt(text, i, keywords[k])
  /\ ~\E k2 \in 1..Len(keywords) : \E j \in 1..(i - 1) :
         /\ StartsWithAt(text, j, keywords[k2])
         /\ j + Len(keywords[k2]) = i + Len(keywords[k])

LabelStarts(text) ==
  {i \in 1..Len(text) : \E k \in 1..Len(keywords) : LabelAt(text, i, k)}

\* the field that starts at i: the label and its value, up to the next
\* label, without the separators that follow the value
FieldAt(text, i) ==
  LET later == {j \in LabelStarts(text) : j > i}
      stop == IF later = {} THEN Len(text) + 1 ELSE MinOf(later)
      keep == {j \in i..(stop - 1) : text[j] \notin SpaceOrComma}
  IN SubSeq(text, i, CHOOSE x \in keep : \A y \in keep : y <= x)

LinesOf(text) == {Split(text, "\n")[n] : n \in 1..Len(Split(text, "\n"))}

\* C13: the pre-formatter, applied to a single-line text with the
\* instrument label and a comma, puts every labelled field of the input
\* on a line of its own, label intact and value on the same line, and
\* leaves no line empty or with whitespace at its ends.
C13_OneLabelPerLine ==
  (pc = "preformatDone" /\ PreFormatterTriggered(body)) =>
    /\ \A i \in LabelStarts(body) :
         FieldAt(body, i) \in LinesOf(messageToProcess)
    /\ \A l \in LinesOf(messageToProcess) : l # <<>> /\ Trim(l) = l

\* C14: for an HK code every provider request carries the code padded
\* with zeros to 5 digits, and the rewritten text shows the code as it was
\* extracted.
C14_HkCodePadded ==
  marketPrefix = "hk" =>
    /\ \A k \in 1..Len(requests) :
         /\ Len(requests[k].code) = 5
         /\ requests[k].code = PadStart(stockCode, 5)
    /\ (pc = "done" /\ Truthy(name)) =>
         Includes(result, Wrapped(variant, name, stockCode))

\* the request is one the handler must reject
MustReject == method # "POST" \/ key \in {"", "unknown", "constructor", "nourl"}

\* C15: an invocation sends at most one response and has sent exactly one
\* when it has returned; the status is 405 for a non-POST request, 400 or 404 for a missing or
\* unconfigured key, and 200 or 500 otherwise; a rejected request causes
\* no provider lookup and no outbound forward.
C15_ExactlyOneResponse ==
  /\ Len(responses) <= 1
  /\ hpc = "returned" <=> Len(responses) = 1
  /\ Len(responses) = 1 =>
       responses[1] \in (IF method # "POST" THEN {405}
                         ELSE IF MustReject THEN {400, 404}
                         ELSE {200, 500})
  /\ MustReject => (pc = "idle" /\ requests = <<>> /\ forwards = <<>>)

\* both provider lookups failed, the forward was refused, the handler
\* answered 500 once
C15_Witness ==
  /\ hpc = "returned"
  /\ responses = <<500>>
  /\ Len(requests) = 2
  /\ requests[2].outcome \in Failures
  /\ Len(forwards) = 1
  /\ forwards[1].outcome = "reject"

\* C16: in part_000 the forward is issued at most once and only after the
\* enrichment step has returned; a request whose text reached the
\* enrichment step is answered after exactly one forward; 200 is sent only
\* after the forward returned an ok status, and after a forward that
\* returned a non-ok status, threw or was aborted the answer is 500.
C16_ForwardBeforeSuccess ==
  (variant = "part_000" /\ hpc # "none") =>
    /\ Len(forwards) <= 1
    /\ forwards # <<>> =>
         /\ pc = "done"
         /\ \A k \in 1..Len(requests) : requests[k].outcome # "pending"
         /\ forwards[1].content = FinalMessage(variant, result)
    /\ (hpc = "returned" /\ pc # "idle") => Len(forwards) = 1
    /\ responses = <<200>> =>
         (Len(forwards) = 1 /\ forwards[1].outcome = "ok")
    /\ (hpc = "returned" /\ forwards # <<>>
          /\ forwards[1].outcome \in {"notOk", "reject", "abort"}) =>
         responses = <<500>>

\* the name was resolved, the forward was aborted by its timeout, the
\* handler answered 500
C16_Witness ==
  /\ variant = "part_000"
  /\ hpc = "returned"
  /\ Truthy(name)
  /\ requests # <<>>
  /\ Len(forwards) = 1
  /\ forwards[1].outcome = "abort"
  /\ responses = <<500>>

====
